---- MODULE Spec2Model ----
(***************************************************************************)
(* Model of the parameter mapping and tensor-resizing engine of the graph  *)
(* hypernetwork (ppuda/ghn/nn.py): the size-reduction rule min_sz, the     *)
(* resizer _tile_params, the matcher _map_net_params, the decoder dispatch *)
(* and the injection loop of GHN.forward, and the injector _set_params.    *)
(*                                                                         *)
(* A tensor is modelled by its shape and by the provenance of its          *)
(* elements.  Every slicing and tiling step of the resizer acts on each    *)
(* axis on its own, so a tensor derived from a predicted tensor p is       *)
(* represented exactly by, for each of its axes, the axis of p it runs     *)
(* along and the sequence of positions of p it reads (field ax), together  *)
(* with the positions at which the dropped axes of p were indexed (field   *)
(* fix).  Python indices are 0-based; sequences here are 1-based, so the   *)
(* Python shape component s[k] is s[k+1] below.                            *)
(***************************************************************************)
EXTENDS Integers, Sequences, FiniteSets, TLC

VARIABLES
    \* the size-reduction rule applied twice to one dimension
    rd_n, rd_M, rd_out, rd_pc,
    \* the resizer applied to one predicted shape and one target shape
    rs_S, rs_T, rs_out, rs_pc,
    \* the hypernetwork: self.training, self.debug_level, self.max_shape
    training, debug_level, max_shape,
    \* the target architectures: conv_sz is the raw shape of conv.weight,
    \* slots the parameter storage of every module, layered the descriptor
    \* pools kept in net.__dict__['_layered_modules']
    conv_sz, slots, layered,
    \* one forward call: its position, its arguments, the graphs it reads,
    \* the error it raised
    pc, calls, inp, graph, err,
    \* the locals of _map_net_params
    mb, mc, mk, target_modules, mapping, params_map,
    \* the locals of the injection loop of forward
    task, writes, pruned,
    \* the parameter count taken after matching and what the end of forward
    \* printed about it
    n_params_true, report,
    \* what the previous forward call left behind
    prev,
    \* one descriptor taken through key construction, decoder dispatch and
    \* resizing
    sk_sz, sk_lw, sk_lb, sk_is_w, sk_it, sk_key, sk_path, sk_row, sk_sliced,
    sk_out, sk_pc

rdVars == <<rd_n, rd_M, rd_out, rd_pc>>
rsVars == <<rs_S, rs_T, rs_out, rs_pc>>
ghnVars == <<training, debug_level, max_shape>>
netVars == <<conv_sz, slots, layered>>
callVars == <<pc, calls, inp, graph, err>>
matchVars == <<mb, mc, mk, target_modules, mapping, params_map>>
injectVars == <<task, writes, pruned, n_params_true, report>>
fwdVars == <<ghnVars, netVars, callVars, matchVars, injectVars, prev>>
skVars == <<sk_sz, sk_lw, sk_lb, sk_is_w, sk_it, sk_key, sk_path, sk_row,
            sk_sliced, sk_out, sk_pc>>
vars == <<rdVars, rsVars, skVars, fwdVars>>

(***************************************************************************)
(* Bounds of the model.                                                    *)
(***************************************************************************)
MaxN == 14
MaxCap == 40
MaxDim == 3

\* len(max_shape) == 4: shapes have rank 1 to 4
MaxRank == 4

Min(a, b) == IF a < b THEN a ELSE b

Shapes == UNION {[1..r -> 1..MaxDim] : r \in 1..MaxRank}

(***************************************************************************)
(* min_sz: the size-reduction rule of one dimension j of the raw shape sz  *)
(* under the caps max_shape_.  n >= max_shape[j] / 2 is a comparison with  *)
(* a float quotient: for integers it is 2 * n >= max_shape[j].             *)
(***************************************************************************)
min_sz_unsnapped(sz, max_shape_, j) ==
    LET n1 == Min(sz[j], max_shape_[j])
        n2 == IF n1 % 3 = 0 THEN (n1 \div 3) * 4 ELSE n1
    IN  IF 2 * n2 >= max_shape_[j] /\ n2 <= max_shape_[j] THEN max_shape_[j] ELSE n2

min_sz_flipped(sz, max_shape_, j) ==
    LET n1 == Min(sz[j], max_shape_[j])
        n2 == IF n1 % 3 # 0 THEN (n1 \div 3) * 4 ELSE n1
    IN  IF 2 * n2 >= max_shape_[j] THEN max_shape_[j] ELSE n2

min_sz(sz, max_shape_, j) ==
    LET n1 == Min(sz[j], max_shape_[j])
        n2 == IF n1 % 3 = 0 THEN (n1 \div 3) * 4 ELSE n1
    IN  IF 2 * n2 >= max_shape_[j] THEN max_shape_[j] ELSE n2

(***************************************************************************)
(* Tensors.                                                                *)
(***************************************************************************)
ErrT(e) == [err |-> e, ax |-> <<>>, fix |-> {}]

\* a freshly predicted tensor of shape S: every element is itself
Pred(S) ==
    [err |-> "none",
     ax  |-> [j \in 1..Len(S) |-> [src |-> j, ix |-> [i \in 1..S[j] |-> i - 1]]],
     fix |-> {}]

Shape(w) == [j \in 1..Len(w.ax) |-> Len(w.ax[j].ix)]

\* the items of a Python index expression w[a, b, ...]
Upto(n) == [kind |-> "upto", n |-> n]     \* :n
At(i)   == [kind |-> "at", n |-> i]       \* the integer index i
All     == [kind |-> "all", n |-> 0]      \* :

(***************************************************************************)
(* w[items]: basic indexing of a torch tensor.  More items than axes, or   *)
(* an integer index past the end of its axis, raise IndexError; an integer *)
(* index drops its axis; axes without an item are kept whole.              *)
(***************************************************************************)
PyIndex(w, items) ==
    IF w.err # "none" THEN w
    ELSE IF Len(items) > Len(w.ax) THEN ErrT("IndexError")
    ELSE IF \E k \in 1..Len(items) :
                items[k].kind = "at" /\ items[k].n >= Len(w.ax[k].ix)
         THEN ErrT("IndexError")
    ELSE LET r == Len(w.ax)
             dropped(k) == k <= Len(items) /\ items[k].kind = "at"
             kept == SelectSeq([k \in 1..r |-> k], LAMBDA k : ~dropped(k))
             cut(k) == IF k <= Len(items) /\ items[k].kind = "upto"
                       THEN [src |-> w.ax[k].src,
                             ix  |-> SubSeq(w.ax[k].ix, 1,
                                            Min(items[k].n, Len(w.ax[k].ix)))]
                       ELSE w.ax[k]
         IN  [err |-> "none",
              ax  |-> [j \in 1..Len(kept) |-> cut(kept[j])],
              fix |-> w.fix \cup {<<w.ax[k].src, w.ax[k].ix[items[k].n + 1]>> :
                                      k \in {k2 \in 1..r : dropped(k2)}}]

(***************************************************************************)
(* w.repeat(reps): the tensor tiled reps[k] times along axis k.  The       *)
(* resizer calls it only after its rank assertion, with one factor per     *)
(* axis; torch rejects fewer factors than axes.                            *)
(***************************************************************************)
Repeat_interleave(w, reps) ==
    IF w.err # "none" THEN w
    ELSE IF Len(reps) # Len(w.ax) THEN ErrT("RuntimeError")
    ELSE [err |-> "none",
          ax  |-> [j \in 1..Len(w.ax) |->
                    [src |-> w.ax[j].src,
                     ix  |-> [i \in 1..(Len(w.ax[j].ix) * reps[j]) |->
                               w.ax[j].ix[((i - 1) \div reps[j]) + 1]]]],
          fix |-> w.fix]

Repeat(w, reps) ==
    IF w.err # "none" THEN w
    ELSE IF Len(reps) # Len(w.ax) THEN ErrT("RuntimeError")
    ELSE [err |-> "none",
          ax  |-> [j \in 1..Len(w.ax) |->
                    [src |-> w.ax[j].src,
                     ix  |-> [i \in 1..(Len(w.ax[j].ix) * reps[j]) |->
                               w.ax[j].ix[((i - 1) % Len(w.ax[j].ix)) + 1]]]],
          fix |-> w.fix]

\* int(np.ceil(a / b)) for positive integers
CeilDiv(a, b) == (a + b - 1) \div b

(***************************************************************************)
(* _tile_params, step by step: slice, rank assertion, tile out_channels,   *)
(* tile in_channels, final chop.                                           *)
(***************************************************************************)
tile_slice_short(w, t) ==
    LET s == Shape(w)
    IN  IF Len(t) = 1 THEN
            IF Len(s) = 2 THEN PyIndex(w, <<Upto(Min(t[1], s[1])), At(0)>>)
            ELSE IF Len(s) > 2
                 THEN PyIndex(w, <<Upto(Min(t[1], s[1])), At(0), At(0), At(0)>>)
                 ELSE w
        ELSE IF Len(t) = 2 THEN
            IF Len(s) > 2
            THEN PyIndex(w, <<Upto(Min(t[1], s[1])), Upto(Min(t[2], s[2])), At(0)>>)
            ELSE w
        ELSE IF Len(t) = 3 THEN
            IF Len(s) > 3
            THEN PyIndex(w, <<Upto(Min(t[1], s[1])), Upto(Min(t[2], s[2])),
                              Upto(Min(t[3], s[3])), At(0)>>)
            ELSE w
        ELSE IF Len(t) < 4 \/ Len(s) < 4 THEN ErrT("IndexError")
        ELSE PyIndex(w, <<Upto(Min(t[1], s[1])), Upto(Min(t[2], s[2])),
                          Upto(Min(t[3], s[3])), Upto(Min(t[4], s[4]))>>)

tile_slice(w, t) ==
    LET s == Shape(w)
    IN  IF Len(t) = 1 THEN
            IF Len(s) = 2 THEN PyIndex(w, <<Upto(Min(t[1], s[1])), At(0)>>)
            ELSE IF Len(s) > 2
                 THEN PyIndex(w, <<Upto(Min(t[1], s[1])), At(0), At(0), At(0)>>)
                 ELSE w
        ELSE IF Len(t) = 2 THEN
            IF Len(s) > 2
            THEN PyIndex(w, <<Upto(Min(t[1], s[1])), Upto(Min(t[2], s[2])),
                              At(0), At(0)>>)
            ELSE w
        ELSE IF Len(t) = 3 THEN
            IF Len(s) > 3
            THEN PyIndex(w, <<Upto(Min(t[1], s[1])), Upto(Min(t[2], s[2])),
                              Upto(Min(t[3], s[3])), At(0)>>)
            ELSE w
        ELSE IF Len(t) < 4 \/ Len(s) < 4 THEN ErrT("IndexError")  \* t[3], s[3]
        ELSE PyIndex(w, <<Upto(Min(t[1], s[1])), Upto(Min(t[2], s[2])),
                          Upto(Min(t[3], s[3])), Upto(Min(t[4], s[4]))>>)

tile_out_channels_stretched(w, t) ==
    LET s == Shape(w)
        n_out == CeilDiv(t[1], s[1])
    IN  IF t[1] > s[1]
        THEN [w EXCEPT !.ax[1].ix = [i \in 1..t[1] |-> w.ax[1].ix[((i - 1) \div n_out) + 1]]]
        ELSE w

tile_out_channels(w, t) ==
    LET s == Shape(w)
        n_out == CeilDiv(t[1], s[1])
    IN  IF t[1] > s[1] THEN
            IF Len(t) = 1 THEN PyIndex(Repeat(w, <<n_out>>), <<Upto(t[1])>>)
            ELSE IF Len(t) = 2
                 THEN PyIndex(Repeat(w, <<n_out, 1>>), <<Upto(t[1])>>)
            ELSE IF Len(t) = 3
                 THEN PyIndex(Repeat(w, <<n_out, 1, 1>>), <<Upto(t[1])>>)
            ELSE PyIndex(Repeat(w, <<n_out, 1, 1, 1>>), <<Upto(t[1])>>)
        ELSE w

\* s is the shape after slicing, before out_channels were tiled
tile_in_channels(w, s, t) ==
    IF Len(t) > 1 /\ t[2] > s[2] THEN
        LET n_in == CeilDiv(t[2], s[2])
        IN  IF Len(t) = 2
            THEN PyIndex(Repeat(w, <<1, n_in>>), <<All, Upto(t[2])>>)
            ELSE IF Len(t) = 3
            THEN PyIndex(Repeat(w, <<1, n_in, 1>>), <<All, At(t[2])>>)
            ELSE PyIndex(Repeat(w, <<1, n_in, 1, 1>>), <<All, Upto(t[2])>>)
    ELSE w

tile_chop_swapped(w, t) ==
    IF Len(t) = 1 THEN PyIndex(w, <<Upto(t[1])>>)
    ELSE IF Len(t) = 2 THEN PyIndex(w, <<Upto(t[2]), Upto(t[1])>>)
    ELSE IF Len(t) = 3 THEN PyIndex(w, <<Upto(t[2]), Upto(t[1]), Upto(t[3])>>)
    ELSE IF Len(t) < 4 THEN ErrT("IndexError")
    ELSE PyIndex(w, <<Upto(t[2]), Upto(t[1]), Upto(t[3]), Upto(t[4])>>)

tile_chop(w, t) ==
    IF Len(t) = 1 THEN PyIndex(w, <<Upto(t[1])>>)
    ELSE IF Len(t) = 2 THEN PyIndex(w, <<Upto(t[1]), Upto(t[2])>>)
    ELSE IF Len(t) = 3 THEN PyIndex(w, <<Upto(t[1]), Upto(t[2]), Upto(t[3])>>)
    ELSE IF Len(t) < 4 THEN ErrT("IndexError")
    ELSE PyIndex(w, <<Upto(t[1]), Upto(t[2]), Upto(t[3]), Upto(t[4])>>)

tile_params(w, t) ==
    LET w1 == tile_slice(w, t)
    IN  IF w1.err # "none" THEN w1
        ELSE IF Len(Shape(w1)) # Len(t) THEN ErrT("AssertionError")
        ELSE LET w2 == tile_out_channels(w1, t)
                 w3 == IF w2.err # "none" THEN w2
                       ELSE tile_in_channels(w2, Shape(w1), t)
             IN  IF w3.err # "none" THEN w3 ELSE tile_chop(w3, t)

\* the variables of a function that is not being exercised
rsIdle == rs_S = <<>> /\ rs_T = <<>> /\ rs_out = ErrT("none") /\ rs_pc = "off"
rdIdle == rd_n = 0 /\ rd_M = 0 /\ rd_out = <<>> /\ rd_pc = "off"
skIdle ==
    /\ sk_sz = <<>> /\ sk_lw = FALSE /\ sk_lb = FALSE /\ sk_is_w = FALSE /\ sk_it = 0
    /\ sk_key = <<>> /\ sk_path = "" /\ sk_row = ErrT("none")
    /\ sk_sliced = ErrT("none") /\ sk_out = ErrT("none") /\ sk_pc = "off"

(***************************************************************************)
(* The target architectures.  Every network of the batch has the same      *)
(* layout: cell 1 holds a module conv (weight of raw shape conv_sz, bias)  *)
(* and a normalization layer bn (weight, bias); cell 2 holds the           *)
(* classification layer fc (weight, bias).  No module has a layer_scale    *)
(* attribute, so _set_params always picks 'weight' or 'bias'.              *)
(***************************************************************************)
MaxBatch == 2
MaxNodes == 2
MaxCalls == 2

NumCells == 2
Nets == 1..MaxBatch
Modules == {"conv", "bn", "fc"}
NormLayers == {"bn"}
CellOf(m) == IF m = "fc" THEN 2 ELSE 1

ConvShapes == {<<3>>, <<3, 5>>, <<3, 1, 1>>, <<3, 2, 1>>, <<5, 3, 1, 1>>,
               <<3, 3, 3, 3>>}
MaxShapes == {<<4, 4, 2, 2>>, <<16, 16, 3, 3>>}
\* the hypernetworks and convolutions taken together: every raw shape under
\* the small caps, and under the large caps the shapes they leave whole
Configs ==
    {cfg \in MaxShapes \X ConvShapes :
        cfg[1] = <<4, 4, 2, 2>> \/ cfg[2] \in {<<3, 3, 3, 3>>, <<3, 2, 1>>}}
BnShape == <<5>>
FcShape == <<3, 5>>
\* num_classes of the hypernetwork: the width of the bias_class projection
num_classes == FcShape[1]

RawSz(m, k, csz) ==
    IF m = "conv" THEN (IF k = "weight" THEN csz ELSE <<csz[1]>>)
    ELSE IF m = "bn" THEN BnShape
    ELSE IF k = "weight" THEN FcShape ELSE <<FcShape[1]>>

(***************************************************************************)
(* Objects.  A tensor or parameter object has an identity (id), a storage  *)
(* (store), contents (val: the decoder row it was cut from and the         *)
(* provenance of its elements) and a shape.  A module keeps a parameter    *)
(* key in its instance __dict__ (dict) or in its _parameters registry      *)
(* (reg); getattr reads __dict__ first.                                    *)
(***************************************************************************)
NoId == [tag |-> "", call |-> 0, ind |-> 0, it |-> 0, net |-> 0, mod |-> "", key |-> ""]
NoVal == [call |-> 0, key |-> <<>>, row |-> 0, t |-> ErrT("none")]
Absent == [kind |-> "absent", id |-> NoId, store |-> NoId, val |-> NoVal, shape |-> <<>>]
NoneV == [kind |-> "None", id |-> NoId, store |-> NoId, val |-> NoVal, shape |-> <<>>]

ParamId(n, m, k) == [NoId EXCEPT !.tag = "param", !.net = n, !.mod = m, !.key = k]
PredId(c, ind, it) == [NoId EXCEPT !.tag = "pred", !.call = c, !.ind = ind, !.it = it]
CloneId(c, ind, it) == [NoId EXCEPT !.tag = "clone", !.call = c, !.ind = ind, !.it = it]

\* the nn.Parameter a freshly built module holds
InitialParam(n, m, k, csz) ==
    [kind |-> "Parameter", id |-> ParamId(n, m, k), store |-> ParamId(n, m, k),
     val |-> NoVal, shape |-> RawSz(m, k, csz)]

InitialSlots(csz) ==
    [n \in Nets |-> [m \in Modules |-> [k \in {"weight", "bias"} |->
        [dict |-> Absent, reg |-> InitialParam(n, m, k, csz)]]]]

getattr_(sl) == IF sl.dict.kind # "absent" THEN sl.dict ELSE sl.reg

\* module.key = None on a registered parameter: Module.__setattr__ stores
\* None in _parameters and leaves the instance __dict__ alone
setattr_None(sl) == [sl EXCEPT !.reg = NoneV]

(***************************************************************************)
(* Parameter descriptors and pools.  A pool is, per cell, the set of       *)
(* descriptors {param_name: {'module', 'is_w', 'sz'}} not yet claimed.     *)
(***************************************************************************)
Path(m, suf) == [mod |-> m, suf |-> suf]
KeyOfSuf(suf) == IF suf = ".weight" THEN "weight" ELSE "bias"

Descriptor(m, k, sz) ==
    [path |-> Path(m, IF k = "weight" THEN ".weight" ELSE ".bias"),
     module |-> m, is_w |-> (k = "weight"), sz |-> sz]

\* net.__dict__['_layered_modules'] as the loader builds it
InitialPool(csz) ==
    [c \in 1..NumCells |->
        {Descriptor(m, k, RawSz(m, k, csz)) :
            m \in {m2 \in Modules : CellOf(m2) = c}, k \in {"weight", "bias"}}]

\* named_layered_modules(net): the parameters the modules hold right now
named_layered_modules(netslots) ==
    [c \in 1..NumCells |->
        {Descriptor(y[1], y[2], getattr_(netslots[y[1]][y[2]]).shape) :
            y \in {x \in Modules \X {"weight", "bias"} :
                      /\ CellOf(x[1]) = c
                      /\ getattr_(netslots[x[1]][x[2]]).kind \notin {"absent", "None"}}}]

(***************************************************************************)
(* Graph nodes: (node_ind, p_, name, sz, last_weight, last_bias).  A path  *)
(* p_ is a module name and a suffix; sz = <<>> stands for None.            *)
(***************************************************************************)
Node(m, suf, name, sz, lw, lb) ==
    [p |-> Path(m, suf), name |-> name, sz |-> sz, last_weight |-> lw, last_bias |-> lb]

NodeTemplates ==
    {Node("conv", "", "conv", <<>>, FALSE, FALSE),
     Node("conv", ".bias", "bias", <<>>, FALSE, FALSE),
     Node("bn", ".weight", "bn", <<>>, FALSE, FALSE),
     Node("fc", ".weight", "conv", <<>>, TRUE, FALSE),
     Node("fc", ".bias", "bias", <<>>, FALSE, TRUE),
     Node("", "", "glob_avg", <<>>, FALSE, FALSE),
     Node("ghost", "", "conv", <<>>, FALSE, FALSE),
     Node("ghost", ".weight", "conv", <<3>>, FALSE, FALSE)}

\* p_ if p_.endswith(('.weight', '.bias', 'in_proj_weight', 'in_proj_bias'))
\* else p_ + '.weight' (the paths of the model carry no other suffix)
ParamName(p) ==
    IF p.suf \in {".weight", ".bias", "in_proj_weight", "in_proj_bias"}
    THEN p ELSE Path(p.mod, ".weight")

Patterns_short == {"input", "sum", "concat", "pool", "msa", "cse"}

\* name.find(pattern) >= 0 for the operation names of the model
Patterns == {"input", "sum", "concat", "pool", "glob_avg", "msa", "cse"}
Find(name, pattern) ==
    \/ name = pattern
    \/ name \in {"max_pool", "avg_pool"} /\ pattern = "pool"

good(name) == \E pattern \in Patterns : Find(name, pattern)

(***************************************************************************)
(* The ShapeKey of a matched descriptor.                                   *)
(***************************************************************************)
shape_key_spatial_reduced(sz, max_shape_, last_weight, last_bias) ==
    IF Len(sz) = 1 THEN
        IF last_bias THEN <<min_sz(sz, max_shape_, 1), -1>>
        ELSE <<min_sz(sz, max_shape_, 1), 0>>
    ELSE IF last_weight THEN <<min_sz(sz, max_shape_, 1), min_sz(sz, max_shape_, 2)>>
    ELSE IF Len(sz) = 2
    THEN <<min_sz(sz, max_shape_, 1), min_sz(sz, max_shape_, 2), 1, 1>>
    ELSE IF Len(sz) = 3
    THEN <<min_sz(sz, max_shape_, 1), min_sz(sz, max_shape_, 2), min_sz(sz, max_shape_, 3)>>
    ELSE <<min_sz(sz, max_shape_, 1), min_sz(sz, max_shape_, 2),
           min_sz(sz, max_shape_, 3), min_sz(sz, max_shape_, 4)>>

shape_key(sz, max_shape_, last_weight, last_bias) ==
    IF Len(sz) = 1 THEN
        IF last_bias THEN <<min_sz(sz, max_shape_, 1), -1>>
        ELSE <<min_sz(sz, max_shape_, 1), 0>>
    ELSE IF last_weight THEN <<min_sz(sz, max_shape_, 1), min_sz(sz, max_shape_, 2)>>
    ELSE IF Len(sz) = 2
    THEN <<min_sz(sz, max_shape_, 1), min_sz(sz, max_shape_, 2), 1, 1>>
    ELSE IF Len(sz) = 3
    THEN <<min_sz(sz, max_shape_, 1), min_sz(sz, max_shape_, 2), min_sz(sz, max_shape_, 3)>>
    ELSE <<min_sz(sz, max_shape_, 1), min_sz(sz, max_shape_, 2), sz[3], sz[4]>>

(***************************************************************************)
(* _map_net_params.  mapping is the dict key -> list of global node        *)
(* indices, kept in insertion order as a sequence of [key, inds];          *)
(* params_map is the dict global node index -> (matched, key, w_ind), with *)
(* key = <<>> and w_ind = -1 standing for None.                            *)
(***************************************************************************)
RECURSIVE Concat(_)
Concat(ss) == IF ss = <<>> THEN <<>> ELSE Head(ss) \o Concat(Tail(ss))

\* graphs.n_nodes[b]
n_nodes(g) == Len(Concat(g))

param_ind_unshifted(gs, b) == 0

\* torch.sum(graphs.n_nodes[:b])
param_ind(gs, b) == Len(Concat([i \in 1..(b - 1) |-> Concat(gs[i])]))

\* node_ind of the k-th node (counted from 0) of cell c of graph g
node_ind(g, c, k) == Len(Concat(SubSeq(g, 1, c - 1))) + k

KeyPos(mp, key) ==
    IF \E g \in 1..Len(mp) : mp[g].key = key
    THEN CHOOSE g \in 1..Len(mp) : mp[g].key = key
    ELSE 0

\* mapping[key] (created empty when missing) .append(ind)
mapping_append(mp, key, ind) ==
    IF KeyPos(mp, key) = 0
    THEN Append(mp, [key |-> key, inds |-> <<ind>>])
    ELSE [mp EXCEPT ![KeyPos(mp, key)].inds = Append(@, ind)]

\* params_map[ind] = entry
params_map_set(pm, ind, entry) ==
    [i \in DOMAIN pm \cup {ind} |-> IF i = ind THEN entry ELSE pm[i]]

\* del target_modules[cell_id][param_name]
del_descriptor_skipped(cellpool, d) == cellpool

del_descriptor(cellpool, d) == cellpool \ {d}

\* the pool target_modules is bound to for network n
pool_of(n, sl, lay) == IF training THEN lay[n] ELSE named_layered_modules(sl[n])

sanity_check_never == FALSE

\* the sanity_check argument forward passes: self.debug_level > 0
sanity_check == debug_level > 0

\* the descriptors of the cell that match the node's parameter name
lookup(cellpool, node) == {d \in cellpool : d.path = ParamName(node.p)}

(***************************************************************************)
(* The decoder dispatch of forward: the row w[w_ind] of the tensor decoded *)
(* for a bucket.  self.decoder is described by its contract: one tensor of *)
(* the requested shape bounded by max_shape.                               *)
(***************************************************************************)
max_ch == IF max_shape[1] > max_shape[2] THEN max_shape[1] ELSE max_shape[2]

decoder(sz) == [i \in 1..4 |-> Min(sz[i], max_shape[i])]

is_cls(key) == Len(key) = 2 /\ (key[2] > 0 \/ key[2] < 0)

dispatch_no_projection(key) ==
    IF Len(key) \in {2, 3} THEN
        IF Len(key) = 2 /\ key[2] > 0 THEN "decoder(class_pred=True)"
        ELSE IF Len(key) = 3 THEN "decoder_1d.view(n,-1,1,1)"
        ELSE "decoder_1d.view(n,2,-1)"
    ELSE IF Len(key) # 4 THEN "AssertionError"
    ELSE "decoder(class_pred=False)"

\* the decoder path lines 206-224 take for a bucket key
dispatch(key) ==
    IF Len(key) \in {2, 3} THEN
        IF Len(key) = 2 /\ key[2] > 0 THEN "decoder(class_pred=True)"
        ELSE IF Len(key) = 3 THEN "decoder_1d.view(n,-1,1,1)"
        ELSE IF key[2] < 0 THEN "bias_class(decoder_1d.view(n,2,-1))"
        ELSE "decoder_1d.view(n,2,-1)"
    ELSE IF Len(key) # 4 THEN "AssertionError"
    ELSE "decoder(class_pred=False)"

\* w[w_ind] for the path taken
decode_row(key) ==
    LET path == dispatch(key)
    IN  IF path = "decoder(class_pred=True)"
        THEN Pred(decoder(<<key[1], key[2], 1, 1>>))
        ELSE IF path = "decoder_1d.view(n,-1,1,1)" THEN Pred(<<2 * max_ch, 1, 1>>)
        ELSE IF path = "bias_class(decoder_1d.view(n,2,-1))"
        THEN Pred(<<2, num_classes>>)
        ELSE IF path = "decoder_1d.view(n,2,-1)" THEN Pred(<<2, max_ch>>)
        ELSE IF path = "decoder(class_pred=False)" THEN Pred(decoder(key))
        ELSE ErrT(path)

\* the slice of the row a node of rank-1 raw shape takes: 1 - is_w + it
slice_index_swapped(is_w, it) == (IF is_w THEN 1 ELSE 0) - it

slice_index(is_w, it) == 1 - (IF is_w THEN 1 ELSE 0) + it

iterations_single(d) == <<0>>

\* range(2 if (len(sz) == 1 and is_w) else 1)
iterations(d) == IF Len(d.sz) = 1 /\ d.is_w THEN <<0, 1>> ELSE <<0>>

skip_cls_never(key, pcl) == FALSE

\* not predict_class_layers and is_cls
skip_cls(key, pcl) == ~pcl /\ is_cls(key)

\* the calls of _set_params the injection loop makes, in order
Tasks ==
    Concat([g \in 1..Len(mapping) |->
        IF skip_cls(mapping[g].key, inp.pcl) THEN <<>>
        ELSE Concat([i \in 1..Len(mapping[g].inds) |->
            LET ind == mapping[g].inds[i]
                e == params_map[ind]
            IN  IF e.w_ind = -1 THEN <<>>
                ELSE [j \in 1..Len(iterations(e.matched)) |->
                        [key |-> mapping[g].key, ind |-> ind,
                         it |-> iterations(e.matched)[j]]]])])

(***************************************************************************)
(* _set_params on the module object mod ([weight, bias], each a slot).     *)
(* Returns the module as it is left and the error raised, if any.          *)
(***************************************************************************)
set_params_check_first(mod, tensor, is_w) ==
    LET key == IF is_w THEN "weight" ELSE "bias"
        target_param == getattr_(mod[key])
    IN  IF target_param.kind \in {"absent", "None"}
        THEN [module |-> mod, err |-> "AttributeError"]
        ELSE IF target_param.shape # tensor.shape \/ (~training /\ target_param.kind # "Parameter")
        THEN [module |-> mod, err |-> "AssertionError"]
        ELSE IF training
        THEN [module |-> [mod EXCEPT ![key] = [dict |-> tensor, reg |-> tensor]],
              err |-> "none"]
        ELSE [module |-> [mod EXCEPT ![key].reg =
                             [target_param EXCEPT
                                 !.store = [tensor.id EXCEPT !.tag = "clone"],
                                 !.val = tensor.val, !.shape = tensor.shape]],
              err |-> "none"]

set_params_unchecked(mod, tensor, is_w) ==
    LET key == IF is_w THEN "weight" ELSE "bias"
        target_param == getattr_(mod[key])
    IN  IF target_param.kind \in {"absent", "None"}
        THEN [module |-> mod, err |-> "AttributeError"]
        ELSE IF training
        THEN [module |-> [mod EXCEPT ![key] = [dict |-> tensor, reg |-> tensor]],
              err |-> "none"]
        ELSE IF target_param.kind # "Parameter"
        THEN [module |-> mod, err |-> "AssertionError"]
        ELSE [module |-> [mod EXCEPT ![key].reg =
                             [target_param EXCEPT
                                 !.store = [tensor.id EXCEPT !.tag = "clone"],
                                 !.val = tensor.val, !.shape = tensor.shape]],
              err |-> "none"]

set_params_bind_always(mod, tensor, is_w) ==
    LET key == IF is_w THEN "weight" ELSE "bias"
        target_param == getattr_(mod[key])
    IN  IF target_param.kind \in {"absent", "None"}
        THEN [module |-> mod, err |-> "AttributeError"]
        ELSE LET set == [mod EXCEPT ![key] = [dict |-> tensor, reg |-> tensor]]
             IN  [module |-> set,
                  err |-> IF target_param.shape # tensor.shape
                          THEN "AssertionError" ELSE "none"]

set_params(mod, tensor, is_w) ==
    LET key == IF is_w THEN "weight" ELSE "bias"
        target_param == getattr_(mod[key])
    IN  IF target_param.kind \in {"absent", "None"}
        THEN [module |-> mod, err |-> "AttributeError"]    \* target_param.shape
        ELSE LET sz_target == target_param.shape
                 written ==
                    IF training
                    THEN [module |-> [mod EXCEPT ![key] = [dict |-> tensor, reg |-> tensor]],
                          err |-> "none"]
                    ELSE IF target_param.kind # "Parameter"
                    THEN [module |-> mod, err |-> "AssertionError"]
                    ELSE [module |-> [mod EXCEPT ![key].reg =
                                        [target_param EXCEPT
                                            !.store = [tensor.id EXCEPT !.tag = "clone"],
                                            !.val = tensor.val,
                                            !.shape = tensor.shape]],
                          err |-> "none"]
             IN  IF written.err # "none" THEN written
                 ELSE IF sz_target # getattr_(written.module[key]).shape
                 THEN [module |-> written.module, err |-> "AssertionError"]
                 ELSE written

(***************************************************************************)
(* GHN.forward as a state machine.  pc is the position of the call:        *)
(* "idle" (no call yet), "match" (inside _map_net_params), "inject" (the   *)
(* decode and injection loop), "returned", "failed" (an exception left     *)
(* forward).  The node lists of the graphs are read node by node; the      *)
(* first call fixes them and a later call on the same arguments reads the  *)
(* same graphs again.                                                      *)
(***************************************************************************)
MaxDebugLevel == 2

NoInp == [nets |-> <<>>, single |-> FALSE, graphs_none |-> FALSE, pcl |-> FALSE]
NoPrev == [pc |-> "idle", err |-> "none", mapping |-> <<>>, params_map |-> <<>>,
           debug_level |-> 0, in_matcher |-> FALSE, view |-> <<>>, twin |-> FALSE]

Unmatched(sz) == [path |-> Path("", ""), module |-> "", is_w |-> FALSE, sz |-> sz]

runIdle ==
    /\ training = FALSE /\ debug_level = 0
    /\ conv_sz = <<>> /\ slots = <<>> /\ layered = <<>>
    /\ pc = "off" /\ calls = 0 /\ inp = NoInp /\ graph = <<>> /\ err = "none"
    /\ mb = 0 /\ mc = 0 /\ mk = 0 /\ target_modules = <<>>
    /\ mapping = <<>> /\ params_map = <<>>
    /\ task = 0 /\ writes = <<>> /\ pruned = {}
    /\ n_params_true = -1 /\ report = "none"
    /\ prev = NoPrev

fwdIdle == max_shape = <<>> /\ runIdle

Init ==
    /\ training \in BOOLEAN
    /\ debug_level \in 0..MaxDebugLevel
    /\ \E cfg \in Configs : max_shape = cfg[1] /\ conv_sz = cfg[2]
    /\ slots = InitialSlots(conv_sz)
    /\ layered = [n \in Nets |-> InitialPool(conv_sz)]
    /\ pc = "idle" /\ calls = 0 /\ inp = NoInp /\ graph = <<>> /\ err = "none"
    /\ mb = 0 /\ mc = 0 /\ mk = 0 /\ target_modules = <<>>
    /\ mapping = <<>> /\ params_map = <<>>
    /\ task = 0 /\ writes = <<>> /\ pruned = {}
    /\ n_params_true = -1 /\ report = "none"
    /\ prev = NoPrev
    /\ rdIdle /\ rsIdle /\ skIdle

\* the assertions at the head of forward
precondition_skipped(a) == TRUE

precondition(a) ==
    IF ~training THEN a.single \/ Len(a.nets) = 1
    ELSE ~a.graphs_none

\* numel of a tensor of the given shape
RECURSIVE numel(_)
numel(shape) == IF shape = <<>> THEN 1 ELSE Head(shape) * numel(Tail(shape))

RECURSIVE SumSeq(_)
SumSeq(q) == IF q = <<>> THEN 0 ELSE Head(q) + SumSeq(Tail(q))

\* capacity(net, is_grad=False)[1]: the number of elements of the
\* parameters the network holds
capacity(netslots) ==
    LET order == <<<<"conv", "weight">>, <<"conv", "bias">>, <<"bn", "weight">>,
                   <<"bn", "bias">>, <<"fc", "weight">>, <<"fc", "bias">>>>
    IN  SumSeq([i \in 1..Len(order) |->
                  LET r == netslots[order[i][1]][order[i][2]].reg
                  IN  IF r.kind \in {"None", "absent"} THEN 0 ELSE numel(r.shape)])

\* n_params_true as lines 184-185 compute it (-1: not computed)
count_true(nets, sl, dl) ==
    IF dl > 0 \/ ~training
    THEN SumSeq([i \in 1..Len(nets) |-> capacity(sl[nets[i]])])
    ELSE -1

\* lines 186-188 print valid_ops, a local that only the evaluation branch
\* of forward assigns (line 176)
valid_ops_unbound(dl) == training /\ dl > 1

\* forward from the return of _map_net_params to the injection loop
AfterMatch(nets, sl, dl) ==
    /\ n_params_true' = count_true(nets, sl, dl)
    /\ task' = 1
    /\ IF valid_ops_unbound(dl)
       THEN pc' = "failed" /\ err' = "UnboundLocalError"
       ELSE pc' = "inject" /\ err' = "none"

\* forward from its first line to the first node of _map_net_params, on
\* networks whose storage is sl and whose stored pools are lay, with
\* debug_level dl
Begin(a, g, sl, lay, dl) ==
    /\ calls' = calls + 1
    /\ graph' = g
    /\ mapping' = <<>>
    /\ params_map' = <<>>
    /\ writes' = <<>>
    /\ pruned' = {}
    /\ report' = "none"
    /\ UNCHANGED <<rdVars, rsVars, skVars>>
    /\ IF ~precondition(a)
       THEN /\ pc' = "failed"
            /\ err' = "AssertionError"
            /\ inp' = a
            /\ mb' = 0 /\ mc' = 0 /\ mk' = 0 /\ target_modules' = <<>>
            /\ task' = 0 /\ n_params_true' = -1
       ELSE \* nets_torch becomes the list _map_net_params reads (lines 166, 314)
            \* and graphs the batch built at line 172
            /\ inp' = [a EXCEPT !.single = FALSE, !.graphs_none = FALSE]
            /\ IF Len(a.nets) = 0
               THEN /\ mb' = 0 /\ mc' = 0 /\ mk' = 0 /\ target_modules' = <<>>
                    /\ AfterMatch(a.nets, sl, dl)
               ELSE /\ pc' = "match"
                    /\ err' = "none"
                    /\ mb' = 1 /\ mc' = 1 /\ mk' = 0
                    /\ target_modules' = pool_of(a.nets[1], sl, lay)
                    /\ task' = 0 /\ n_params_true' = -1

StartForward(a, g) ==
    /\ Begin(a, g, slots, layered, debug_level)
    /\ UNCHANGED <<ghnVars, netVars>>

Call ==
    /\ pc = "idle"
    /\ calls = 0
    /\ \E single \in BOOLEAN, k \in 0..MaxBatch, gnone \in BOOLEAN, pcl \in BOOLEAN :
          /\ single => k = 1
          /\ StartForward([nets |-> [i \in 1..k |-> i], single |-> single,
                           graphs_none |-> gnone, pcl |-> pcl],
                          [i \in 1..k |-> [c \in 1..NumCells |-> <<>>]])
    /\ prev' = prev

\* what a call leaves in a slot, whichever call wrote it
SlotView(sl) ==
    LET v == getattr_(sl)
    IN  [kind |-> v.kind, shape |-> v.shape, key |-> v.val.key, row |-> v.val.row,
         t |-> v.val.t]

View ==
    [n \in Nets |-> [m \in Modules |-> [k \in {"weight", "bias"} |->
        SlotView(slots[n][m][k])]]]

Outcome(tw) ==
    [pc |-> pc, err |-> err, mapping |-> mapping, params_map |-> params_map,
     debug_level |-> debug_level,
     in_matcher |-> (pc = "failed" /\ mb > 0 /\ task = 0),
     view |-> IF pc = "returned" THEN View ELSE <<>>,
     twin |-> tw]

\* a second forward call on the same networks and graphs
CallAgain ==
    /\ pc \in {"returned", "failed"}
    /\ calls >= 1
    /\ calls < MaxCalls
    /\ prev' = Outcome(FALSE)
    /\ StartForward(inp, graph)

\* the first call, made with debug_level = 0, made again with another
\* debug_level: the same arguments,
\* graphs and options, on target architectures as they were built
CallTwin ==
    /\ pc \in {"returned", "failed"}
    /\ calls = 1
    /\ calls < MaxCalls
    /\ debug_level = 0
    /\ prev' = Outcome(TRUE)
    /\ \E dl \in 1..MaxDebugLevel :
          /\ debug_level' = dl
          /\ slots' = InitialSlots(conv_sz)
          /\ layered' = [n \in Nets |-> InitialPool(conv_sz)]
          /\ Begin(inp, graph, InitialSlots(conv_sz),
                   [n \in Nets |-> InitialPool(conv_sz)], dl)
    /\ UNCHANGED <<training, max_shape, conv_sz>>

\* the nodes the matcher may read next in cell mc of graph mb
NextNodes ==
    IF calls > 1
    THEN (IF mk < Len(graph[mb][mc]) THEN {graph[mb][mc][mk + 1]} ELSE {})
    ELSE (IF Len(Concat([i \in 1..Len(graph) |-> Concat(graph[i])])) < MaxNodes
          THEN NodeTemplates ELSE {})

\* one iteration of the loop over node_info[cell_id]
MatchNode ==
    /\ pc = "match"
    /\ \E node \in NextNodes :
        LET net == inp.nets[mb]
            ind == param_ind(graph, mb) + node_ind(graph[mb], mc, mk)
            matched == lookup(target_modules[mc], node)
        IN  /\ graph' = IF calls > 1 THEN graph
                        ELSE [graph EXCEPT ![mb][mc] = Append(@, node)]
            /\ mk' = mk + 1
            /\ IF matched = {}
               THEN /\ params_map' =
                          IF node.sz # <<>>
                          THEN params_map_set(params_map, ind,
                                   [matched |-> Unmatched(node.sz), net |-> net,
                                    cell |-> mc, key |-> <<>>, w_ind |-> -1])
                          ELSE params_map
                    /\ IF sanity_check /\ ~good(node.name)
                       THEN pc' = "failed" /\ err' = "AssertionError"
                       ELSE UNCHANGED <<pc, err>>
                    /\ UNCHANGED <<mapping, target_modules, layered>>
               ELSE LET d == CHOOSE x \in matched : TRUE
                        key == shape_key(d.sz, max_shape, node.last_weight,
                                         node.last_bias)
                        tm == [target_modules EXCEPT ![mc] = del_descriptor(@, d)]
                    IN  /\ params_map' =
                              params_map_set(params_map, ind,
                                  [matched |-> d, net |-> net, cell |-> mc, key |-> key,
                                   w_ind |-> IF KeyPos(mapping, key) = 0 THEN 0
                                             ELSE Len(mapping[KeyPos(mapping, key)].inds)])
                        /\ mapping' = mapping_append(mapping, key, ind)
                        /\ target_modules' = tm
                        /\ layered' = IF training THEN [layered EXCEPT ![net] = tm]
                                      ELSE layered
                        /\ UNCHANGED <<pc, err>>
    /\ UNCHANGED <<ghnVars, conv_sz, slots, calls, inp, mb, mc, injectVars, prev,
                   rdVars, rsVars, skVars>>

prune_weight_only(netslots, cellpool) ==
    [m \in Modules |->
        IF \E d \in cellpool : d.is_w /\ d.module = m
        THEN [netslots[m] EXCEPT !.weight = setattr_None(@)]
        ELSE netslots[m]]

\* Prune redundant ops: the weight descriptors left in the cell
prune(netslots, cellpool) ==
    [m \in Modules |->
        IF \E d \in cellpool : d.is_w /\ d.module = m
        THEN [weight |-> setattr_None(netslots[m].weight),
              bias |-> IF getattr_(netslots[m].bias).kind \notin {"absent", "None"}
                       THEN setattr_None(netslots[m].bias)
                       ELSE netslots[m].bias]
        ELSE netslots[m]]

\* the end of the loop over a cell's nodes: prune, then the next cell, the
\* next network of the batch, or the return of _map_net_params
EndCell ==
    /\ pc = "match"
    /\ calls > 1 => mk = Len(graph[mb][mc])
    /\ LET net == inp.nets[mb]
           after == [slots EXCEPT ![net] = prune(slots[net], target_modules[mc])]
       IN  /\ slots' = after
           /\ pruned' = pruned \cup
                 {<<net, d.module, k>> :
                     d \in {x \in target_modules[mc] : x.is_w}, k \in {"weight", "bias"}}
           /\ IF mc < NumCells
              THEN /\ mc' = mc + 1 /\ mk' = 0
                   /\ UNCHANGED <<mb, target_modules, pc, err, task, n_params_true>>
              ELSE IF mb < Len(inp.nets)
              THEN /\ mb' = mb + 1 /\ mc' = 1 /\ mk' = 0
                   /\ target_modules' = pool_of(inp.nets[mb + 1], after, layered)
                   /\ UNCHANGED <<pc, err, task, n_params_true>>
              ELSE /\ AfterMatch(inp.nets, after, debug_level)
                   /\ UNCHANGED <<mb, mc, mk, target_modules>>
    /\ UNCHANGED <<ghnVars, conv_sz, layered, calls, inp, graph, mapping,
                   params_map, writes, report, prev, rdVars, rsVars, skVars>>

\* the tensor w_ cut from the decoded row for one pass of the loop body
predicted_slice(key, d, it) ==
    IF Len(d.sz) = 1
    THEN PyIndex(decode_row(key), <<At(slice_index(d.is_w, it))>>)
    ELSE decode_row(key)

\* assert (type(m) in NormLayers and len(key) == 2 and key[1] == 0) on it == 1
norm_assert(key, d, it) ==
    \/ ~(Len(d.sz) = 1 /\ it = 1)
    \/ (d.module \in NormLayers /\ Len(key) = 2 /\ key[2] = 0)

\* the tensor object _tile_params returns
predicted_tensor(c, tk, row, tiled) ==
    [kind |-> "Tensor",
     id |-> PredId(c, tk.ind, tk.it),
     store |-> PredId(c, tk.ind, tk.it),
     val |-> [call |-> c, key |-> tk.key, row |-> row, t |-> tiled],
     shape |-> Shape(tiled)]

\* one pass of the body of "for it in range(...)": slice, resize, inject
Inject ==
    /\ pc = "inject"
    /\ \E tk \in {Tasks[t] : t \in {task} \cap 1..Len(Tasks)} :
       \E e \in {params_map[tk.ind]} :
       \E w_ \in {predicted_slice(tk.key, e.matched, tk.it)} :
       \E tiled \in {tile_params(w_, e.matched.sz)} :
       \E is_w \in {e.matched.is_w /\ tk.it = 0} :             \* is_w & ~it
           IF w_.err # "none"
           THEN pc' = "failed" /\ err' = w_.err /\ UNCHANGED <<slots, writes, task>>
           ELSE IF ~norm_assert(tk.key, e.matched, tk.it)
           THEN pc' = "failed" /\ err' = "AssertionError"
                /\ UNCHANGED <<slots, writes, task>>
           ELSE IF tiled.err # "none"
           THEN pc' = "failed" /\ err' = tiled.err /\ UNCHANGED <<slots, writes, task>>
           ELSE \E tensor \in {predicted_tensor(calls, tk, e.w_ind, tiled)} :
                \E res \in {set_params(slots[e.net][e.matched.module], tensor, is_w)} :
                /\ slots' = [slots EXCEPT ![e.net][e.matched.module] = res.module]
                \* writes records the slots _set_params has written
                /\ writes' = IF res.module = slots[e.net][e.matched.module]
                             THEN writes
                             ELSE Append(writes,
                                    [net |-> e.net, module |-> e.matched.module,
                                     key |-> IF is_w THEN "weight" ELSE "bias",
                                     ind |-> tk.ind, it |-> tk.it, tensor |-> tensor,
                                     err |-> res.err])
                /\ IF res.err # "none"
                   THEN pc' = "failed" /\ err' = res.err /\ task' = task
                   ELSE task' = task + 1 /\ UNCHANGED <<pc, err>>
    /\ UNCHANGED <<ghnVars, conv_sz, layered, calls, inp, graph, matchVars, pruned,
                   n_params_true, report, prev, rdVars, rsVars, skVars>>

\* n_params: the sizes of the tensors _set_params returned, summed
n_params(ws) == SumSeq([i \in 1..Len(ws) |-> numel(ws[i].tensor.shape)])

count_report_fatal(np, npt) ==
    IF npt # -1 /\ np # npt
    THEN [report |-> "none", err |-> "AssertionError"]
    ELSE [report |-> "none", err |-> "none"]

\* what lines 263-297 do with n_params and n_params_true: they print
count_report(np, npt) ==
    IF debug_level > 0 /\ ~training
    THEN [report |-> IF npt = np THEN "MATCHED!" ELSE "ERROR! NOT MATCHED",
          err |-> "none"]
    ELSE IF debug_level > 0 \/ ~training
    THEN [report |-> IF np # npt THEN "WARNING" ELSE "none", err |-> "none"]
    ELSE [report |-> "none", err |-> "none"]

\* the injection loop is over: the counts are compared and forward returns
\* nets_torch
Return ==
    /\ pc = "inject"
    /\ task > Len(Tasks)
    /\ \E r \in {count_report(n_params(writes), n_params_true)} :
          /\ report' = r.report
          /\ IF r.err = "none" THEN pc' = "returned" /\ err' = err
             ELSE pc' = "failed" /\ err' = r.err
    /\ UNCHANGED <<ghnVars, netVars, calls, inp, graph, matchVars, task, writes,
                   pruned, n_params_true, prev, rdVars, rsVars, skVars>>

Next == Call \/ CallAgain \/ CallTwin \/ MatchNode \/ EndCell \/ Inject \/ Return

Spec == Init /\ [][Next]_vars

(***************************************************************************)
(* Specification SpecReduce: min_sz applied to a size, then to its own     *)
(* output.                                                                 *)
(***************************************************************************)

InitReduce ==
    /\ rd_n \in 1..MaxN
    /\ rd_M \in 1..MaxCap
    /\ rd_out = <<>>
    /\ rd_pc = "call"
    /\ rsIdle
    /\ skIdle
    /\ fwdIdle

ReduceOnce ==
    /\ rd_pc = "call"
    /\ Len(rd_out) = 0
    /\ rd_out' = <<min_sz(<<rd_n>>, <<rd_M>>, 1)>>
    /\ rd_pc' = "again"
    /\ UNCHANGED <<rd_n, rd_M, rsVars, skVars, fwdVars>>

ReduceAgain ==
    /\ rd_pc = "again"
    /\ rd_out' = Append(rd_out, min_sz(<<rd_out[1]>>, <<rd_M>>, 1))
    /\ rd_pc' = "done"
    /\ UNCHANGED <<rd_n, rd_M, rsVars, skVars, fwdVars>>

NextReduce == ReduceOnce \/ ReduceAgain

SpecReduce == InitReduce /\ [][NextReduce]_vars

(***************************************************************************)
(* Specification SpecTile: _tile_params applied to a predicted tensor of   *)
(* shape rs_S and a target shape rs_T.                                     *)
(***************************************************************************)
InitTile ==
    /\ rs_S \in Shapes
    /\ rs_T \in Shapes
    /\ rs_out = ErrT("none")
    /\ rs_pc = "call"
    /\ rdIdle
    /\ skIdle
    /\ fwdIdle

TileCall ==
    /\ rs_pc = "call"
    /\ rs_out' = tile_params(Pred(rs_S), rs_T)
    /\ rs_pc' = "done"
    /\ UNCHANGED <<rs_S, rs_T, rdVars, skVars, fwdVars>>

NextTile == TileCall

SpecTile == InitTile /\ [][NextTile]_vars

(***************************************************************************)
(* Specification SpecKey: one matched descriptor of raw shape sk_sz, with  *)
(* the flags of the node that claimed it, taken through the key            *)
(* construction of _map_net_params, the decoder dispatch of forward and    *)
(* _tile_params; and keys of other ranks taken through the dispatch.       *)
(***************************************************************************)
MaxKeyDim == 3

\* the convolution of the worked scenario and the caps it is matched under
ConvScenario == <<512, 256, 3, 3>>
ScenarioCaps == <<256, 256, 3, 3>>

KeyShapes == UNION {[1..r -> 1..MaxKeyDim] : r \in 1..MaxRank} \cup {ConvScenario}
KeyMaxShapes == MaxShapes \cup {ScenarioCaps}
ForeignKeys == {<<2>>, <<2, 2, 1, 1, 1>>}

InitKey ==
    /\ sk_sz \in KeyShapes
    /\ sk_lw \in BOOLEAN
    /\ sk_lb \in BOOLEAN
    /\ sk_is_w \in BOOLEAN
    /\ max_shape \in KeyMaxShapes
    /\ sk_it = 0 /\ sk_key = <<>> /\ sk_path = ""
    /\ sk_row = ErrT("none") /\ sk_sliced = ErrT("none") /\ sk_out = ErrT("none")
    /\ sk_pc = "key"
    /\ rdIdle /\ rsIdle /\ runIdle

\* lines 346-366
KeyOfMatched ==
    /\ sk_pc = "key"
    /\ sk_key' = shape_key(sk_sz, max_shape, sk_lw, sk_lb)
    /\ sk_pc' = "dispatch"
    /\ UNCHANGED <<sk_sz, sk_lw, sk_lb, sk_is_w, sk_it, sk_path, sk_row, sk_sliced,
                   sk_out, rdVars, rsVars, fwdVars>>

\* a bucket key that no descriptor produced
KeyForeign ==
    /\ sk_pc = "key"
    /\ sk_key' \in ForeignKeys
    /\ sk_sz' = <<>>
    /\ sk_pc' = "dispatch"
    /\ UNCHANGED <<sk_lw, sk_lb, sk_is_w, sk_it, sk_path, sk_row, sk_sliced, sk_out,
                   rdVars, rsVars, fwdVars>>

\* lines 206-224
Dispatch ==
    /\ sk_pc = "dispatch"
    /\ sk_path' = dispatch(sk_key)
    /\ sk_row' = decode_row(sk_key)
    /\ sk_pc' = IF decode_row(sk_key).err # "none" THEN "failed" ELSE "resize"
    /\ UNCHANGED <<sk_sz, sk_lw, sk_lb, sk_is_w, sk_it, sk_key, sk_sliced, sk_out,
                   rdVars, rsVars, fwdVars>>

\* lines 237-249: one pass of the loop body up to the return of _tile_params
Resize ==
    /\ sk_pc = "resize"
    /\ \E d \in {[Unmatched(sk_sz) EXCEPT !.is_w = sk_is_w]} :
       \E j \in 1..Len(iterations(d)) :
       \E w_ \in {predicted_slice(sk_key, d, iterations(d)[j])} :
          /\ sk_it' = iterations(d)[j]
          /\ sk_sliced' = IF w_.err # "none" THEN w_ ELSE tile_slice(w_, sk_sz)
          /\ sk_out' = IF w_.err # "none" THEN w_ ELSE tile_params(w_, sk_sz)
    /\ sk_pc' = "done"
    /\ UNCHANGED <<sk_sz, sk_lw, sk_lb, sk_is_w, sk_key, sk_path, sk_row,
                   rdVars, rsVars, fwdVars>>

NextKey == KeyOfMatched \/ KeyForeign \/ Dispatch \/ Resize

SpecKey == InitKey /\ [][NextKey]_vars

(***************************************************************************)
(* C1: the resizer returns a tensor of exactly the target shape for every  *)
(* predicted shape S and target shape T of the same rank (1 to 4).         *)
(***************************************************************************)
C1_ResizerReturnsTargetShape ==
    (rs_pc = "done" /\ Len(rs_S) = Len(rs_T))
        => (rs_out.err = "none" /\ Shape(rs_out) = rs_T)

(***************************************************************************)
(* C4 as stated: min_sz is idempotent on its own output.                   *)
(***************************************************************************)
C4_ReduceIdempotent ==
    rd_pc = "done" => rd_out[2] = rd_out[1]

(***************************************************************************)
(* C4 amended: min_sz is idempotent on its own output whenever that output *)
(* is the cap or is not a multiple of 3.                                   *)
(***************************************************************************)
C4_ReduceIdempotentOffThree ==
    (rd_pc = "done" /\ (rd_out[1] = rd_M \/ rd_out[1] % 3 # 0))
        => rd_out[2] = rd_out[1]

\* a size below half the cap that the rule rounds (3 -> 4) and then keeps
C4_Witness ==
    /\ rd_pc = "done"
    /\ rd_n % 3 = 0
    /\ rd_out[1] # rd_M
    /\ rd_out[1] # rd_n
    /\ rd_out[2] = rd_out[1]
(***************************************************************************)
(* Helpers of the properties of forward.                                   *)
(***************************************************************************)
\* the slot a write went to, as it is now
SlotOf(w) == slots[w.net][w.module][w.key]

\* the matcher has read node k of cell c of graph b in the current call
Processed(b, c, k) ==
    /\ mb > 0
    /\ IF pc = "match" \/ (pc = "failed" /\ task = 0)
       THEN b < mb \/ (b = mb /\ (c < mc \/ (c = mc /\ k <= mk)))
       ELSE TRUE

GlobalInd(b, c, k) == param_ind(graph, b) + node_ind(graph[b], c, k - 1)

NodePositions ==
    {x \in (1..Len(graph)) \X (1..NumCells) \X (1..MaxNodes + 1) :
        x[3] <= Len(graph[x[1]][x[2]])}

\* a node the matcher has read that resolved to no descriptor, carries no
\* raw shape and is not an allow-listed operation
UnresolvedNodes ==
    {x \in NodePositions :
        /\ Processed(x[1], x[2], x[3])
        /\ GlobalInd(x[1], x[2], x[3]) \notin DOMAIN params_map
        /\ ~good(graph[x[1]][x[2]][x[3]].name)}

\* _map_net_params raised
MatcherFailed == pc = "failed" /\ mb > 0 /\ task = 0

MatchedInds == {i \in DOMAIN params_map : params_map[i].w_ind # -1}

(***************************************************************************)
(* C2: when forward returns normally, every slot it injected holds a       *)
(* tensor whose shape is the raw shape of the matched descriptor, whatever *)
(* the bucket key the reduction produced.                                  *)
(***************************************************************************)
C2_InjectedShapeIsRawShape ==
    pc = "returned" =>
        \A i \in 1..Len(writes) :
            getattr_(SlotOf(writes[i])).shape = params_map[writes[i].ind].matched.sz

\* a returned call that injected a rank-4 weight whose key was reduced
C2_Witness ==
    /\ pc = "returned"
    /\ \E i \in 1..Len(writes) :
          LET e == params_map[writes[i].ind]
          IN  Len(e.matched.sz) = 4 /\ e.key[1] # e.matched.sz[1]

(***************************************************************************)
(* C3: within one run of the matcher no two graph nodes are assigned the   *)
(* same descriptor (network, cell, parameter path).                        *)
(***************************************************************************)
C3_ClaimsUnique ==
    \A i, j \in MatchedInds :
        i # j =>
            <<params_map[i].net, params_map[i].cell, params_map[i].matched.path>>
                # <<params_map[j].net, params_map[j].cell, params_map[j].matched.path>>

\* two nodes of one cell resolve to the same path: the first claimed the
\* descriptor, the second got no match
C3_Witness ==
    /\ pc = "match"
    /\ mk = 2
    /\ ParamName(graph[mb][mc][1].p) = ParamName(graph[mb][mc][2].p)
    /\ GlobalInd(mb, mc, 1) \in MatchedInds
    /\ GlobalInd(mb, mc, 2) \notin MatchedInds

(***************************************************************************)
(* C5: with predict_class_layers=False the injection loop leaves the slot  *)
(* of every descriptor bucketed under a classification key as it was, and  *)
(* a call that returns has injected every other matched node.              *)
(***************************************************************************)
ClsInds == {i \in MatchedInds : is_cls(params_map[i].key)}

DescriptorSlot(sl, i) ==
    sl[params_map[i].net][params_map[i].matched.module]
      [KeyOfSuf(params_map[i].matched.path.suf)]

NormWrites ==
    {k \in 1..Len(writes) :
        LET e == params_map[writes[k].ind]
        IN  /\ Len(e.matched.sz) = 1
            /\ e.matched.is_w
            /\ e.matched.module \in NormLayers
            /\ e.key[2] = 0}

SliceOf(w) == {f[2] : f \in {g \in w.tensor.val.t.fix : g[1] = 1}}

C7_SliceZeroFeedsBias ==
    \A k \in NormWrites :
        /\ writes[k].key = "bias" => SliceOf(writes[k]) = {0}
        /\ writes[k].key = "weight" => SliceOf(writes[k]) = {1}

(***************************************************************************)
(* C7 amended: slice 0 is resized and injected into the weight slot and    *)
(* slice 1 into the bias slot.                                             *)
(***************************************************************************)
C7_SliceZeroFeedsWeight ==
    \A k \in NormWrites :
        /\ writes[k].key = "weight" => SliceOf(writes[k]) = {0}
        /\ writes[k].key = "bias" => SliceOf(writes[k]) = {1}
        /\ getattr_(SlotOf(writes[k])).val = writes[k].tensor.val

\* both slots of a normalization layer were injected
C7_Witness ==
    /\ pc = "returned"
    /\ \E k1, k2 \in NormWrites :
          /\ writes[k1].ind = writes[k2].ind
          /\ writes[k1].key = "weight"
          /\ writes[k2].key = "bias"

(***************************************************************************)
(* C8: after _set_params has written a slot, in training mode the module   *)
(* attribute and its parameter registry are the predicted tensor object    *)
(* itself; in inference mode the slot is still its own parameter object,   *)
(* holding a copy of the predicted contents in a storage of its own.       *)
(***************************************************************************)
C8_WriteModes ==
    Len(writes) > 0 =>
        LET w == writes[Len(writes)]
            sl == SlotOf(w)
        IN  IF training
            THEN sl.dict = w.tensor /\ sl.reg = w.tensor
            ELSE /\ sl.dict = Absent
                 /\ sl.reg.kind = "Parameter"
                 /\ sl.reg.id = ParamId(w.net, w.module, w.key)
                 /\ sl.reg.val = w.tensor.val
                 /\ sl.reg.shape = w.tensor.shape
                 /\ sl.reg.store # w.tensor.store
                 /\ sl.reg.id # w.tensor.id

\* an inference-mode call that injected and returned
C8_Witness ==
    /\ ~training
    /\ pc = "returned"
    /\ Len(writes) > 0

(***************************************************************************)
(* C9: a second forward call on the same architecture and graph starts     *)
(* from the full descriptor pool, so it builds the same ParamsMap and the  *)
(* same buckets as the first, in training mode as in inference mode.       *)
(***************************************************************************)
C9_PoolPrivateToCall ==
    (calls >= 2 /\ ~prev.twin /\ prev.pc = "returned") =>
        /\ ~MatcherFailed
        /\ pc \in {"inject", "returned"} =>
              (params_map = prev.params_map /\ mapping = prev.mapping)

(***************************************************************************)
(* C10: in evaluation mode a list of networks whose length is not 1, and   *)
(* in training mode graphs=None, are rejected with an assertion error      *)
(* before any matching or injection: no slot has been modified.            *)
(***************************************************************************)
C10_PreconditionsFirst ==
    (calls >= 1 /\ \/ (~training /\ ~inp.single /\ Len(inp.nets) # 1)
                   \/ (training /\ inp.graphs_none))
        => /\ pc = "failed"
           /\ err = "AssertionError"
           /\ slots = InitialSlots(conv_sz)
           /\ mapping = <<>>
           /\ params_map = <<>>
           /\ writes = <<>>
           /\ pruned = {}

\* an evaluation-mode call with two networks was rejected
C10_Witness ==
    /\ ~training
    /\ Len(inp.nets) = 2
    /\ pc = "failed"
    /\ err = "AssertionError"

(***************************************************************************)
(* C11: two forward calls that differ only in debug_level (0 against 1 and *)
(* more) have the same outcome: both fail or both return, and when they    *)
(* return they have built the same ParamsMap and buckets and injected the  *)
(* same slots.                                                             *)
(***************************************************************************)
C11_DebugLevelNoEffect ==
    (prev.twin /\ pc \in {"returned", "failed"}) =>
        /\ pc = prev.pc
        /\ pc = "returned" =>
              /\ params_map = prev.params_map
              /\ mapping = prev.mapping
              /\ View = prev.view

(***************************************************************************)
(* C12: for every matched descriptor of rank 1 to 4, with any combination  *)
(* of the last-weight and last-bias flags, the tensor the decoder dispatch *)
(* hands to _tile_params has after the slicing step the rank of the target *)
(* shape, so the rank assertion of _tile_params never fails.               *)
(***************************************************************************)
C12_RanksAgreeAfterSlicing ==
    (sk_pc = "done" /\ sk_sz # <<>>) =>
        /\ sk_sliced.err = "none"
        /\ Len(Shape(sk_sliced)) = Len(sk_sz)
        /\ sk_out.err # "AssertionError"

\* a rank-3 descriptor claimed by a last-weight node: its 2-tuple key is
\* decoded by the classification path into a rank-4 tensor
C12_Witness ==
    /\ sk_pc = "done"
    /\ Len(sk_sz) = 3
    /\ sk_lw
    /\ Len(Shape(sk_row)) = 4
    /\ Len(Shape(sk_sliced)) = 3

(***************************************************************************)
(* C13: when the target shape equals the shape of the predicted tensor     *)
(* (rank 1 to 4), _tile_params returns its input element for element.      *)
(***************************************************************************)
C13_RoundTrip ==
    (rs_pc = "done" /\ rs_S = rs_T) => rs_out = Pred(rs_S)

\* a rank-4 tensor with a channel and a spatial axis longer than 1
C13_Witness ==
    /\ rs_pc = "done"
    /\ rs_S = rs_T
    /\ Len(rs_S) = 4
    /\ rs_S[1] > 1
    /\ rs_S[2] = 1
    /\ rs_S[4] > 1

(***************************************************************************)
(* C14 as stated: the key is chosen by the rank of the raw shape, and the  *)
(* last-weight flag matters for rank 2 only.                               *)
(***************************************************************************)
reduce(j) == min_sz(sk_sz, max_shape, j)

RankKey ==
    IF Len(sk_sz) = 1 THEN <<reduce(1), IF sk_lb THEN -1 ELSE 0>>
    ELSE IF Len(sk_sz) = 2 THEN <<reduce(1), reduce(2), 1, 1>>
    ELSE IF Len(sk_sz) = 3 THEN <<reduce(1), reduce(2), reduce(3)>>
    ELSE <<reduce(1), reduce(2), sk_sz[3], sk_sz[4]>>

C14_KeyByRank ==
    (sk_pc # "key" /\ sk_sz # <<>>) =>
        sk_key = IF Len(sk_sz) = 2 /\ sk_lw THEN <<reduce(1), reduce(2)>> ELSE RankKey

(***************************************************************************)
(* C14 amended: a rank-1 raw shape gives (reduce(d0), -1) for a last bias  *)
(* and (reduce(d0), 0) otherwise; a raw shape of rank 2, 3 or 4 claimed by *)
(* a last-weight node gives the 2-tuple (reduce(d0), reduce(d1)); any      *)
(* other raw shape gives the key of its rank, the spatial dimensions of a  *)
(* rank-4 shape being kept raw.                                            *)
(***************************************************************************)
C14_KeyLastWeightFirst ==
    (sk_pc # "key" /\ sk_sz # <<>>) =>
        sk_key = IF Len(sk_sz) >= 2 /\ sk_lw THEN <<reduce(1), reduce(2)>> ELSE RankKey

\* a rank-4 descriptor whose spatial size exceeds the cap, unflagged
C14_Witness ==
    /\ sk_pc = "done"
    /\ Len(sk_sz) = 4
    /\ ~sk_lw
    /\ sk_sz[3] > max_shape[3]
    /\ sk_key[3] = sk_sz[3]

(***************************************************************************)
(* C15: a convolution weight of raw shape (512, 256, 3, 3) under caps of   *)
(* 256 on both channel dimensions gets key (256, 256, 3, 3); resizing the  *)
(* predicted tensor of shape (256, 256, 3, 3) gives shape (512, 256, 3, 3) *)
(* with output row i equal to predicted row i mod 256.                     *)
(***************************************************************************)
C15_ConvScenario ==
    (sk_pc = "done" /\ sk_sz = ConvScenario /\ max_shape = ScenarioCaps /\ ~sk_lw) =>
        /\ sk_key = <<256, 256, 3, 3>>
        /\ Shape(sk_row) = <<256, 256, 3, 3>>
        /\ sk_out.err = "none"
        /\ Shape(sk_out) = <<512, 256, 3, 3>>
        /\ sk_out.fix = {}
        /\ sk_out.ax[1].src = 1
        /\ \A i \in 0..511 : sk_out.ax[1].ix[i + 1] = i % 256
        /\ \A j \in 2..4 : sk_out.ax[j] = Pred(<<256, 256, 3, 3>>).ax[j]

C15_Witness ==
    /\ sk_pc = "done"
    /\ sk_sz = ConvScenario
    /\ max_shape = ScenarioCaps
    /\ ~sk_lw
    /\ Shape(sk_out) = ConvScenario

(***************************************************************************)
(* C19 as stated: the decoder path depends on the key alone; a rank-2 key  *)
(* with second element 0 goes, like every rank-3 key, through the compact  *)
(* vector decoder reshaped to (n, -1, 1, 1).                               *)
(***************************************************************************)
C19_DispatchByKeyAsStated ==
    sk_pc \in {"resize", "done", "failed"} =>
        IF Len(sk_key) = 2 /\ sk_key[2] > 0
        THEN sk_path = "decoder(class_pred=True)" /\ sk_pc # "failed"
        ELSE IF Len(sk_key) = 3 \/ (Len(sk_key) = 2 /\ sk_key[2] = 0)
        THEN /\ sk_path = "decoder_1d.view(n,-1,1,1)"
             /\ Shape(sk_row) = <<2 * max_ch, 1, 1>>
        ELSE IF Len(sk_key) = 2 /\ sk_key[2] = -1
        THEN /\ sk_path = "bias_class(decoder_1d.view(n,2,-1))"
             /\ Shape(sk_row) = <<2, num_classes>>
        ELSE IF Len(sk_key) = 4
        THEN sk_path = "decoder(class_pred=False)" /\ sk_pc # "failed"
        ELSE sk_pc = "failed" /\ sk_row.err = "AssertionError"

(***************************************************************************)
(* C19 amended: a rank-2 key with second element > 0 uses the 4D decoder   *)
(* in classification mode; every rank-3 key uses the compact vector        *)
(* decoder reshaped to (n, -1, 1, 1); a rank-2 key with second element 0   *)
(* uses the compact vector decoder reshaped to (n, 2, -1); a rank-2 key    *)
(* with second element -1 uses the same followed by the classification-    *)
(* bias projection; a rank-4 key uses the 4D decoder in non-classification *)
(* mode; a key of any other rank is an assertion error.                    *)
(***************************************************************************)
C19_DispatchByKey ==
    sk_pc \in {"resize", "done", "failed"} =>
        IF Len(sk_key) = 2 /\ sk_key[2] > 0
        THEN sk_path = "decoder(class_pred=True)" /\ sk_pc # "failed"
        ELSE IF Len(sk_key) = 3
        THEN /\ sk_path = "decoder_1d.view(n,-1,1,1)"
             /\ Shape(sk_row) = <<2 * max_ch, 1, 1>>
        ELSE IF Len(sk_key) = 2 /\ sk_key[2] = 0
        THEN /\ sk_path = "decoder_1d.view(n,2,-1)"
             /\ Shape(sk_row) = <<2, max_ch>>
        ELSE IF Len(sk_key) = 2 /\ sk_key[2] = -1
        THEN /\ sk_path = "bias_class(decoder_1d.view(n,2,-1))"
             /\ Shape(sk_row) = <<2, num_classes>>
        ELSE IF Len(sk_key) = 4
        THEN sk_path = "decoder(class_pred=False)" /\ sk_pc # "failed"
        ELSE sk_pc = "failed" /\ sk_row.err = "AssertionError"

\* a plain rank-1 descriptor: key (n, 0), decoded as (n, 2, -1)
C19_Witness ==
    /\ sk_pc = "done"
    /\ Len(sk_key) = 2
    /\ sk_key[2] = 0
    /\ Shape(sk_row) = <<2, max_ch>>

(***************************************************************************)
(* C16: a difference between the number of injected elements and the       *)
(* parameter count of the target architectures is never fatal: once the    *)
(* injection loop is over forward returns, every slot stays as the loop    *)
(* left it, and a difference between the two counts is only reported.      *)
(***************************************************************************)
C16_CountMismatchNotFatal ==
    [][(pc = "inject" /\ task > Len(Tasks)) =>
          /\ pc' = "returned"
          /\ err' = "none"
          /\ slots' = slots
          /\ writes' = writes
          /\ (n_params_true # -1 /\ n_params(writes) # n_params_true)
                => report' \in {"WARNING", "ERROR! NOT MATCHED"}]_vars

\* a fine-tuning call returned with the classification layers skipped, other
\* tensors injected and the count difference reported
C16_Witness ==
    /\ pc = "returned"
    /\ ~inp.pcl
    /\ ClsInds # {}
    /\ Len(writes) > 0
    /\ n_params(writes) # n_params_true
    /\ report \in {"WARNING", "ERROR! NOT MATCHED"}

(***************************************************************************)
(* C17: a node named as a global-average-pool operation that carries no    *)
(* raw shape and no parameter path never makes the matcher fail, whatever  *)
(* debug_level is: the step that reads it leaves ParamsMap and the buckets *)
(* as they were and stays in the loop over the nodes, and the node's       *)
(* global index never enters ParamsMap or a bucket.                        *)
(***************************************************************************)
GlobAvgNode(node) == node.name = "glob_avg" /\ node.sz = <<>> /\ node.p = Path("", "")

GlobAvgPositions ==
    {x \in NodePositions :
        Processed(x[1], x[2], x[3]) /\ GlobAvgNode(graph[x[1]][x[2]][x[3]])}

C17_GlobAvgNeverRaises ==
    /\ [][(pc = "match" /\ mk' = mk + 1 /\ GlobAvgNode(graph'[mb][mc][mk + 1])) =>
             /\ pc' = "match"
             /\ err' = "none"
             /\ params_map' = params_map
             /\ mapping' = mapping]_vars
    /\ [](\A x \in GlobAvgPositions :
             /\ GlobalInd(x[1], x[2], x[3]) \notin DOMAIN params_map
             /\ \A j \in 1..Len(mapping) : \A q \in 1..Len(mapping[j].inds) :
                    mapping[j].inds[q] # GlobalInd(x[1], x[2], x[3])
             /\ MatcherFailed => <<mb, mc, mk>> # x)

\* with the sanity check on, the matcher has just read such a node after a
\* matched one and is still in the loop
C17_Witness ==
    /\ debug_level > 0
    /\ pc = "match"
    /\ mk = 2
    /\ GlobAvgNode(graph[mb][mc][2])
    /\ GlobalInd(mb, mc, 1) \in MatchedInds

(***************************************************************************)
(* Helpers of C18.  A step ends a cell when the matcher leaves the loop    *)
(* over the cell's nodes without reading another node.                     *)
(***************************************************************************)
CellEnds == pc = "match" /\ mk' # mk + 1

Cleared(sl) == getattr_(sl).kind = "None"

(***************************************************************************)
(* C18 as stated: when the matcher ends a cell, the storage of every       *)
(* descriptor still in the cell's pool, weight or bias, is cleared and the *)
(* storage of every descriptor a node of the cell claimed is left as it    *)
(* was.                                                                    *)
(***************************************************************************)
C18_UnclaimedClearedClaimedKept ==
    [][CellEnds =>
          /\ \A d \in target_modules[mc] :
                Cleared(slots'[inp.nets[mb]][d.module][KeyOfSuf(d.path.suf)])
          /\ \A i \in MatchedInds :
                (params_map[i].net = inp.nets[mb] /\ params_map[i].cell = mc)
                    => DescriptorSlot(slots', i) = DescriptorSlot(slots, i)]_vars

(***************************************************************************)
(* C18 amended: when the matcher ends a cell, every module whose weight    *)
(* descriptor is still in the cell's pool has its weight cleared and its   *)
(* bias, if it holds one, cleared too, also when a node claimed the bias   *)
(* descriptor; the storage of every other module, the unclaimed bias       *)
(* descriptors of modules whose weight was claimed included, and of every  *)
(* other network is left as it was.                                        *)
(***************************************************************************)
C18_WeightUnclaimedModulesCleared ==
    [][CellEnds =>
          /\ \A m \in Modules :
                IF \E d \in target_modules[mc] : d.is_w /\ d.module = m
                THEN /\ Cleared(slots'[inp.nets[mb]][m].weight)
                     /\ getattr_(slots'[inp.nets[mb]][m].bias).kind \in {"None", "absent"}
                ELSE slots'[inp.nets[mb]][m] = slots[inp.nets[mb]][m]
          /\ \A n \in Nets \ {inp.nets[mb]} : slots'[n] = slots[n]]_vars

\* the first cell of the first network has ended with conv.weight claimed
\* and its unclaimed bias kept, and with the unclaimed normalization layer
\* cleared
C18_Witness ==
    /\ pc = "match"
    /\ calls = 1
    /\ mb = 1 /\ mc = 2 /\ mk = 0
    /\ \E i \in MatchedInds :
          /\ params_map[i].net = 1
          /\ params_map[i].matched.path = Path("conv", ".weight")
    /\ Descriptor("conv", "bias", RawSz("conv", "bias", conv_sz)) \in target_modules[1]
    /\ getattr_(slots[1]["conv"].bias).kind = "Parameter"
    /\ Cleared(slots[1]["bn"].weight)
    /\ Cleared(slots[1]["bn"].bias)

(***************************************************************************)
(* C20: the buckets and ParamsMap agree, for one architecture and for a    *)
(* batch: the bucket of a matched node's key holds the node's global index *)
(* at the node's position; a global index is in at most one bucket, once;  *)
(* nodes of different architectures have different global indices and a    *)
(* ParamsMap entry names the architecture of its node; and every injected  *)
(* tensor was cut from the row its bucket holds for the node it was        *)
(* injected for.                                                           *)
(***************************************************************************)
BucketSlots == {y \in (1..Len(mapping)) \X (1..MaxNodes + 1) : y[2] <= Len(mapping[y[1]].inds)}

C20_BucketsAgreeWithParamsMap ==
    /\ \A i \in MatchedInds :
          LET e == params_map[i]
              g == KeyPos(mapping, e.key)
          IN  /\ g # 0
              /\ e.w_ind + 1 \in 1..Len(mapping[g].inds)
              /\ mapping[g].inds[e.w_ind + 1] = i
    /\ \A y, z \in BucketSlots :
          mapping[y[1]].inds[y[2]] = mapping[z[1]].inds[z[2]] => y = z
    /\ \A x, y \in {p \in NodePositions : Processed(p[1], p[2], p[3])} :
          /\ x[1] # y[1] => GlobalInd(x[1], x[2], x[3]) # GlobalInd(y[1], y[2], y[3])
          /\ GlobalInd(x[1], x[2], x[3]) \in DOMAIN params_map
                => params_map[GlobalInd(x[1], x[2], x[3])].net = inp.nets[x[1]]
    /\ \A k \in 1..Len(writes) :
          LET w == writes[k]
              g == KeyPos(mapping, w.tensor.val.key)
          IN  /\ g # 0
              /\ mapping[g].inds[w.tensor.val.row + 1] = w.ind
              /\ params_map[w.ind].net = w.net

\* a batch of two architectures returned with one node of each in the same
\* bucket, the second injected from row 1
C20_Witness ==
    /\ pc = "returned"
    /\ Len(inp.nets) = 2
    /\ \E g \in 1..Len(mapping) :
          /\ Len(mapping[g].inds) = 2
          /\ params_map[mapping[g].inds[1]].net # params_map[mapping[g].inds[2]].net
          /\ \E k \in 1..Len(writes) :
                /\ writes[k].ind = mapping[g].inds[2]
                /\ writes[k].tensor.val.row = 1

(***************************************************************************)
(* C22: the size-reduction rule never exceeds the cap: for every positive  *)
(* size n and every positive cap M, 1 <= min_sz(n, M) <= M, also when the  *)
(* rule is applied to its own output.                                      *)
(***************************************************************************)
C22_ReduceWithinCap ==
    \A k \in 1..Len(rd_out) : 1 <= rd_out[k] /\ rd_out[k] <= rd_M

\* a multiple of 3 that the rounding step pushes above the cap and the
\* last step sets to the cap
C22_Witness ==
    /\ Len(rd_out) >= 1
    /\ Min(rd_n, rd_M) % 3 = 0
    /\ (Min(rd_n, rd_M) \div 3) * 4 > rd_M
    /\ rd_out[1] = rd_M

(***************************************************************************)
(* Helpers of C21: the injections one call has made for a node, and what   *)
(* holds of them whether or not the call returns: a second injection of a  *)
(* node comes right after its first, goes to the bias slot of the module   *)
(* whose weight slot the first went to, and is made only for a             *)
(* normalization layer under a key (n, 0); a first injection goes to the   *)
(* slot of the matched descriptor; no node is injected more often than its *)
(* loop runs and no slot is injected twice.                                *)
(***************************************************************************)
WritesOf(i) == {k \in 1..Len(writes) : writes[k].ind = i}

Required(i) ==
    IF Len(params_map[i].matched.sz) = 1 /\ params_map[i].matched.is_w THEN 2 ELSE 1

InjectionOrder ==
    /\ \A k \in 1..Len(writes) :
          LET w == writes[k]
              e == params_map[w.ind]
          IN  /\ w.ind \in MatchedInds
              /\ w.net = e.net /\ w.module = e.matched.module
              /\ IF w.it = 0
                 THEN w.key = (IF e.matched.is_w THEN "weight" ELSE "bias")
                 ELSE /\ k > 1
                      /\ writes[k - 1].ind = w.ind
                      /\ writes[k - 1].it = 0
                      /\ writes[k - 1].key = "weight"
                      /\ w.key = "bias"
                      /\ Required(w.ind) = 2
                      /\ w.module \in NormLayers
                      /\ Len(e.key) = 2 /\ e.key[2] = 0
    /\ \A i \in MatchedInds : Cardinality(WritesOf(i)) <= Required(i)
    /\ \A k1, k2 \in 1..Len(writes) :
          k1 # k2 =>
              /\ <<writes[k1].ind, writes[k1].it>> # <<writes[k2].ind, writes[k2].it>>
              /\ <<writes[k1].net, writes[k1].module, writes[k1].key>>
                    # <<writes[k2].net, writes[k2].module, writes[k2].key>>

(***************************************************************************)
(* C21 as stated: in a call that returns, every matched node has triggered *)
(* exactly one injection per required component, the weight slot before    *)
(* the bias slot for a rank-1 weight descriptor, and no slot was injected  *)
(* twice.                                                                  *)
(***************************************************************************)
C21_OneInjectionPerComponent ==
    /\ InjectionOrder
    /\ pc = "returned" =>
          \A i \in MatchedInds : Cardinality(WritesOf(i)) = Required(i)

(***************************************************************************)
(* C21 amended: the same, for the matched nodes whose bucket the call does *)
(* not skip; a node bucketed under a classification key triggers no        *)
(* injection when predict_class_layers is off.                             *)
(***************************************************************************)
C21_OneInjectionPerComponentUnlessSkipped ==
    /\ InjectionOrder
    /\ pc = "returned" =>
          \A i \in MatchedInds :
              Cardinality(WritesOf(i)) =
                  IF skip_cls(params_map[i].key, inp.pcl) THEN 0 ELSE Required(i)

\* a call returned after injecting the weight and then the bias of a
\* normalization layer from one node, and one tensor for another node
C21_Witness ==
    /\ pc = "returned"
    /\ Len(writes) = 3
    /\ \E k \in 1..2 :
          /\ writes[k].ind = writes[k + 1].ind
          /\ writes[k].key = "weight" /\ writes[k + 1].key = "bias"
          /\ writes[k].module \in NormLayers
    /\ \E i \in MatchedInds : Cardinality(WritesOf(i)) = 1

(***************************************************************************)
(* Helpers of C24.  NextInjection is the call of _set_params the loop is   *)
(* about to make: the slot it goes to and the resized tensor it carries.   *)
(* ShapeMismatchAhead: that call will reach the shape assertion of         *)
(* _set_params with a tensor whose shape is not the slot's.                *)
(***************************************************************************)
NextInjection ==
    LET tk == Tasks[task]
        e == params_map[tk.ind]
        w_ == predicted_slice(tk.key, e.matched, tk.it)
    IN  [net |-> e.net, module |-> e.matched.module,
         key |-> IF e.matched.is_w /\ tk.it = 0 THEN "weight" ELSE "bias",
         sliced |-> w_,
         asserted |-> norm_assert(tk.key, e.matched, tk.it),
         tiled |-> tile_params(w_, e.matched.sz),
         val |-> [call |-> calls, key |-> tk.key, row |-> e.w_ind,
                  t |-> tile_params(w_, e.matched.sz)]]

ShapeMismatchAhead ==
    /\ pc = "inject"
    /\ task \in 1..Len(Tasks)
    /\ LET nx == NextInjection
           target_param == getattr_(slots[nx.net][nx.module][nx.key])
       IN  /\ nx.sliced.err = "none"
           /\ nx.asserted
           /\ nx.tiled.err = "none"
           /\ target_param.kind \notin {"absent", "None"}
           /\ training \/ target_param.kind = "Parameter"
           /\ Shape(nx.tiled) # target_param.shape

\* the call failed at the shape assertion of _set_params
ShapeMismatchRaised ==
    /\ pc = "failed"
    /\ Len(writes) > 0
    /\ writes[Len(writes)].err = "AssertionError"

(***************************************************************************)
(* C24: injection is not rolled back: the step that raises the shape       *)
(* assertion of _set_params leaves the resized, wrongly shaped tensor in   *)
(* the slot and every other slot as it was; in the failed call every slot  *)
(* injected earlier holds its predicted value and no slot of a later       *)
(* injection holds a value of this call.                                   *)
(***************************************************************************)
C24_NoRollback ==
    /\ [][ShapeMismatchAhead =>
             LET nx == NextInjection
             IN  /\ pc' = "failed"
                 /\ err' = "AssertionError"
                 /\ getattr_(slots'[nx.net][nx.module][nx.key]).shape = Shape(nx.tiled)
                 /\ getattr_(slots'[nx.net][nx.module][nx.key]).val = nx.val
                 /\ \A n \in Nets, m \in Modules, k \in {"weight", "bias"} :
                        <<n, m, k>> # <<nx.net, nx.module, nx.key>>
                            => slots'[n][m][k] = slots[n][m][k]]_vars
    /\ [](ShapeMismatchRaised =>
             /\ task = Len(writes)
             /\ getattr_(SlotOf(writes[task])).shape
                    # params_map[writes[task].ind].matched.sz
             /\ \A k \in 1..Len(writes) :
                    getattr_(SlotOf(writes[k])).val = writes[k].tensor.val
             /\ \A t \in (task + 1)..Len(Tasks) :
                    LET e == params_map[Tasks[t].ind]
                    IN  \A k \in {"weight", "bias"} :
                            (k = "weight") = (e.matched.is_w /\ Tasks[t].it = 0)
                                => getattr_(slots[e.net][e.matched.module][k]).val.call
                                       # calls)

\* the third injection of a call raised the shape assertion: the slot holds
\* the wrongly shaped tensor and the two slots injected before keep theirs
C24_Witness ==
    /\ ShapeMismatchRaised
    /\ Len(writes) = 3
    /\ getattr_(SlotOf(writes[3])).shape = writes[3].tensor.shape
    /\ getattr_(SlotOf(writes[3])).shape # params_map[writes[3].ind].matched.sz
    /\ getattr_(SlotOf(writes[1])).val = writes[1].tensor.val

(***************************************************************************)
(* C23: for a target T of rank 1, 2 or 4 and a predicted tensor of shape S *)
(* of the same rank whose axes from the third on are at least as long as   *)
(* the target's, _tile_params returns a tensor of shape T whose element at *)
(* (i, j, rest) is the predicted element at (i mod s0, j mod s1, rest),    *)
(* with s0 = min(T[0], S[0]) and s1 = min(T[1], S[1]).                     *)
(***************************************************************************)
PeriodicCase ==
    /\ rs_pc = "done"
    /\ Len(rs_T) \in {1, 2, 4}
    /\ Len(rs_S) = Len(rs_T)
    /\ \A k \in 3..Len(rs_T) : rs_S[k] >= rs_T[k]

C23_PeriodicExtension ==
    PeriodicCase =>
        /\ rs_out.err = "none"
        /\ rs_out.fix = {}
        /\ Shape(rs_out) = rs_T
        /\ \A k \in 1..Len(rs_T) :
              /\ rs_out.ax[k].src = k
              /\ \A i \in 1..rs_T[k] :
                    rs_out.ax[k].ix[i] =
                        IF k <= 2 THEN (i - 1) % Min(rs_T[k], rs_S[k]) ELSE i - 1

\* a rank-4 target longer than the prediction along both channel axes, by
\* less than a whole period, and shorter along a spatial axis
C23_Witness ==
    /\ PeriodicCase
    /\ Len(rs_T) = 4
    /\ rs_S[1] = 2 /\ rs_T[1] = 3
    /\ rs_S[2] = 2 /\ rs_T[2] = 3
    /\ rs_S[3] > rs_T[3]
    /\ rs_out.ax[1].ix = <<0, 1, 0>>
    /\ rs_out.ax[2].ix = <<0, 1, 0>>

=============================================================================
